---- MODULE Spec2Model ----
(***************************************************************************)
(* Derived-state and command logic of the valve and stopper device         *)
(* classes: src/pcdsdevices/valve.py and src/devices/stopper.py.           *)
(*                                                                         *)
(* Signals are the EPICS points the classes bind with Cpt/C(...).  A       *)
(* signal that is written is modelled by the log of the values put to it,  *)
(* a signal that is read by its current value, changed by the environment. *)
(***************************************************************************)
EXTENDS Integers, Sequences, FiniteSets, TLC

(***************************************************************************)
(* Bounds of the model.                                                    *)
(***************************************************************************)
\* calls of check_value / set made on the gate valve
MaxCalls == 3

\* puts made on the stopper's command signal
MaxWrites == 3

\* largest raw reading of the PPS summary signal the environment delivers
MaxSummary == 6

\* largest raw reading of a limit signal the environment delivers
MaxLimit == 2

\* puts made on open_command
MaxPuts == 3

\* invocations of calc_lightpath_state that may be in progress together
NumCallers == 2

(***************************************************************************)
(* State.                                                                  *)
(***************************************************************************)
VARIABLES
    interlock,      \* GateValve.interlock (:OPN_OK), the value a get() returns
    ilkConnected,   \* whether a get() of the interlock signal succeeds
    ilkReads,       \* log of the get() calls made on the interlock signal
    command,        \* GateValve.command (:OPN_SW), log of the values put
    gvCalls,        \* number of calls made on the gate valve
    gvLast          \* the last call on the gate valve and its outcome

gateVars == <<interlock, ilkConnected, ilkReads, command, gvCalls, gvLast>>

VARIABLES
    stopperCommand, \* Stopper.command (:CMD), log of the values put
    nOpen,          \* calls of Stopper.open made
    nClose,         \* calls of Stopper.close made
    stLast,         \* the last call on the stopper
    ppsLast,        \* the last reading of PPSStopper.summary and its state
    limLast         \* the last reading of a signal of Stopper.limits

stopperVars == <<stopperCommand, nOpen, nClose, stLast, ppsLast, limLast>>

VARIABLES
    vgcClass,       \* the class of the compound-interlock valve
    diff_press_ok,  \* :DP_OK_RBV
    ext_ilk_ok,     \* :EXT_ILK_OK_RBV
    open_command,   \* :OPN_SW, log of the values put
    vgcLast         \* the last put on open_command and the readings then

vgcVars == <<vgcClass, diff_press_ok, ext_ilk_ok, open_command, vgcLast>>

VARIABLES
    devClass,        \* the class of the device
    output_branches, \* self.output_branches
    attr_inserted,   \* self._inserted
    attr_removed,    \* self._removed
    pc,              \* where each invocation stands
    args,            \* the limit readings each invocation was called with
    frame,           \* the locals of each invocation
    result,          \* the LightpathState each invocation returned
    lastDone         \* the invocation that returned last, and the
                     \* attributes it left

lightVars == <<devClass, output_branches, attr_inserted, attr_removed,
               pc, args, frame, result, lastDone>>

vars == <<gateVars, stopperVars, vgcVars, lightVars>>

(***************************************************************************)
(* Python helpers.                                                         *)
(***************************************************************************)
\* bool(x) of an integer reading
bool(x) == x # 0

\* values of the binary signals (interlock, limits, *_ok)
BinaryValues == {0, 1}

\* the two positions of an in/out device: IN = closed, OUT = open
State_IN == "IN"
State_OUT == "OUT"
states_enum == {State_IN, State_OUT}

(***************************************************************************)
(* Exceptions.  InterlockError derives from PermissionError.               *)
(***************************************************************************)
InterlockError == "InterlockError"
SignalUnavailable == "SignalUnavailable"
NoException == "none"

\* class InterlockError(PermissionError)
ExceptionBase == [InterlockError |-> "PermissionError"]

Return(v, reads) == [exc |-> NoException, ret |-> v, reads |-> reads]
Raise(e, reads) == [exc |-> e, ret |-> "none", reads |-> reads]

(***************************************************************************)
(* valve.py: Commands and GateValve.                                       *)
(***************************************************************************)
Commands == [close_valve |-> 0, open_valve |-> 1]

\* a failed get() in the log of reads
FailedRead == -1

\* self.interlock.get(): the value, or SignalUnavailable
interlock_get(conn, ilk) ==
    IF conn THEN Return(ilk, <<ilk>>)
            ELSE Raise(SignalUnavailable, <<FailedRead>>)

\* interlocked without its `not`
interlocked_inverted(ilk) == bool(ilk)

\* interlocked answering from the first reading ever made of the signal
interlocked_cached(ilk) ==
    ~ bool(IF ilkReads # <<>> /\ ilkReads[1] # FailedRead
           THEN ilkReads[1] ELSE ilk)

\* GateValve.interlocked: not bool(self.interlock.get())
GateValve_interlocked(ilk) == ~ bool(ilk)

\* super().check_value(value): the validated position, unchanged
Stopper_check_value(value) == value

\* check_value without the interlock test
check_value_no_interlock(value, conn, ilk) ==
    Return(Stopper_check_value(value), <<>>)

\* check_value testing interlocked before the value
check_value_eager(value, conn, ilk) ==
    LET v == Stopper_check_value(value)
        g == interlock_get(conn, ilk)
    IN IF g.exc # NoException THEN Raise(g.exc, g.reads)
       ELSE IF GateValve_interlocked(g.ret) /\ v = State_OUT
            THEN Raise(InterlockError, g.reads)
            ELSE Return(v, g.reads)

\* GateValve.check_value.  `and` reads the interlock only when value is OUT.
GateValve_check_value(value, conn, ilk) ==
    LET v == Stopper_check_value(value) IN
    IF v = State_OUT
    THEN LET g == interlock_get(conn, ilk) IN
         IF g.exc # NoException THEN Raise(g.exc, g.reads)
         ELSE IF GateValve_interlocked(g.ret)
              THEN Raise(InterlockError, g.reads)
              ELSE Return(v, g.reads)
    ELSE Return(v, <<>>)

\* the code written to the command signal for a position
CommandCode(value) ==
    IF value = State_OUT THEN Commands.open_valve ELSE Commands.close_valve

NoCall == [op |-> "none", value |-> "none", exc |-> NoException,
           ret |-> "none", ilk |-> 0, conn |-> TRUE]

GateInit ==
    /\ interlock \in BinaryValues
    /\ ilkConnected = TRUE
    /\ ilkReads = <<>>
    /\ command = <<>>
    /\ gvCalls = 0
    /\ gvLast = NoCall

\* the environment changes the interlock reading
InterlockChange ==
    /\ interlock' \in BinaryValues \ {interlock}
    /\ UNCHANGED <<ilkConnected, ilkReads, command, gvCalls, gvLast>>
    /\ UNCHANGED <<stopperVars, vgcVars, lightVars>>

\* the interlock signal disconnects or reconnects
InterlockConnection ==
    /\ ilkConnected' = ~ ilkConnected
    /\ UNCHANGED <<interlock, ilkReads, command, gvCalls, gvLast>>
    /\ UNCHANGED <<stopperVars, vgcVars, lightVars>>

\* a call of GateValve.check_value(value)
CheckValue(value) ==
    /\ gvCalls < MaxCalls
    /\ LET r == GateValve_check_value(value, ilkConnected, interlock) IN
       /\ gvLast' = [op |-> "check_value", value |-> value, exc |-> r.exc,
                     ret |-> r.ret, ilk |-> interlock, conn |-> ilkConnected]
       /\ ilkReads' = ilkReads \o r.reads
    /\ gvCalls' = gvCalls + 1
    /\ UNCHANGED <<interlock, ilkConnected, command>>
    /\ UNCHANGED <<stopperVars, vgcVars, lightVars>>

\* open() / close() of the gate valve: check_value, then the write
GateValve_set(value) ==
    /\ gvCalls < MaxCalls
    /\ LET r == GateValve_check_value(value, ilkConnected, interlock) IN
       /\ gvLast' = [op |-> "set", value |-> value, exc |-> r.exc,
                     ret |-> r.ret, ilk |-> interlock, conn |-> ilkConnected]
       /\ ilkReads' = ilkReads \o r.reads
       /\ command' = IF r.exc = NoException
                     THEN Append(command, CommandCode(r.ret))
                     ELSE command
    /\ gvCalls' = gvCalls + 1
    /\ UNCHANGED <<interlock, ilkConnected>>
    /\ UNCHANGED <<stopperVars, vgcVars, lightVars>>

\* a read of the property GateValve.interlocked
ReadInterlocked ==
    /\ gvCalls < MaxCalls
    /\ LET g == interlock_get(ilkConnected, interlock) IN
       /\ gvLast' = [op |-> "interlocked", value |-> "none", exc |-> g.exc,
                     ret |-> IF g.exc = NoException
                             THEN GateValve_interlocked(g.ret) ELSE "none",
                     ilk |-> interlock, conn |-> ilkConnected]
       /\ ilkReads' = ilkReads \o g.reads
    /\ gvCalls' = gvCalls + 1
    /\ UNCHANGED <<interlock, ilkConnected, command>>
    /\ UNCHANGED <<stopperVars, vgcVars, lightVars>>

GateValve_open == GateValve_set(State_OUT)
GateValve_close == GateValve_set(State_IN)

(***************************************************************************)
(* stopper.py: Commands, the PPS and Limits state tables, Stopper.         *)
(***************************************************************************)
StopperCommands == [close_stopper |-> 0, open_stopper |-> 1]

UnknownStateError == "UnknownStateError"

\* the table of PPS with the entry of 3 left out
PPS_summary_short ==
    (0 :> "out" @@ 1 :> "unknown" @@ 2 :> "unknown" @@ 4 :> "in")

\* the table of PPS with a state for the undeclared value 5
PPS_summary_open_ended ==
    (0 :> "out" @@ 1 :> "unknown" @@ 2 :> "unknown" @@ 3 :> "unknown"
       @@ 4 :> "in" @@ 5 :> "in")

\* the table of PPS: raw value of the summary signal -> state
PPS_summary ==
    (0 :> "out" @@ 1 :> "unknown" @@ 2 :> "unknown" @@ 3 :> "unknown"
       @@ 4 :> "in")

\* the table of open_limit with its two states exchanged
Limits_open_limit_swapped == (0 :> "out" @@ 1 :> "defer")

\* the tables of Limits, one per signal
Limits_open_limit == (0 :> "defer" @@ 1 :> "out")
Limits_closed_limit == (0 :> "defer" @@ 1 :> "in")

Limits == [open_limit |-> Limits_open_limit,
           closed_limit |-> Limits_closed_limit]

\* the state a table gives a raw reading; a reading the table does not
\* declare is an UnknownStateError
map_state(table, raw) ==
    IF raw \in DOMAIN table
    THEN [exc |-> NoException, state |-> table[raw]]
    ELSE [exc |-> UnknownStateError, state |-> "none"]

\* Stopper.open repeating its put
Stopper_open_puts_twice ==
    <<StopperCommands.open_stopper, StopperCommands.open_stopper>>

\* Stopper.open: self.command.put(self.commands.open_stopper)
Stopper_open_puts == <<StopperCommands.open_stopper>>

\* Stopper.close: self.command.put(self.commands.close_stopper)
Stopper_close_puts == <<StopperCommands.close_stopper>>

NoReading == [signal |-> "none", raw |-> 0, exc |-> NoException,
              state |-> "none"]

StopperInit ==
    /\ stopperCommand = <<>>
    /\ nOpen = 0
    /\ nClose = 0
    /\ stLast = "none"
    /\ ppsLast = NoReading
    /\ limLast = NoReading

Stopper_open ==
    /\ nOpen + nClose < MaxWrites
    /\ stopperCommand' = stopperCommand \o Stopper_open_puts
    /\ nOpen' = nOpen + 1
    /\ stLast' = "open"
    /\ UNCHANGED <<nClose, ppsLast, limLast>>
    /\ UNCHANGED <<gateVars, vgcVars, lightVars>>

Stopper_close ==
    /\ nOpen + nClose < MaxWrites
    /\ stopperCommand' = stopperCommand \o Stopper_close_puts
    /\ nClose' = nClose + 1
    /\ stLast' = "close"
    /\ UNCHANGED <<nOpen, ppsLast, limLast>>
    /\ UNCHANGED <<gateVars, vgcVars, lightVars>>

\* the state of PPSStopper.summary for a raw reading of its signal
PPS_read(raw) ==
    /\ LET r == map_state(PPS_summary, raw) IN
       ppsLast' = [signal |-> "summary", raw |-> raw, exc |-> r.exc,
                   state |-> r.state]
    /\ UNCHANGED <<stopperCommand, nOpen, nClose, stLast, limLast>>
    /\ UNCHANGED <<gateVars, vgcVars, lightVars>>

\* the state of one signal of Stopper.limits for a raw reading of it
Limits_read(signal, raw) ==
    /\ LET r == map_state(Limits[signal], raw) IN
       limLast' = [signal |-> signal, raw |-> raw, exc |-> r.exc,
                   state |-> r.state]
    /\ UNCHANGED <<stopperCommand, nOpen, nClose, stLast, ppsLast>>
    /\ UNCHANGED <<gateVars, vgcVars, lightVars>>

(***************************************************************************)
(* valve.py: VGC and VGC_2S.  Both declare diff_press_ok and ext_ilk_ok as *)
(* read-only signals and inherit open_command from ValveBase; neither      *)
(* defines a method.  An open request is a put on open_command.            *)
(***************************************************************************)
CompoundClasses == {"VGC", "VGC_2S"}

NoPut == [value |-> -1, diff_press_ok |-> 0, ext_ilk_ok |-> 0]

VGCInit ==
    /\ vgcClass \in CompoundClasses
    /\ diff_press_ok \in BinaryValues
    /\ ext_ilk_ok \in BinaryValues
    /\ open_command = <<>>
    /\ vgcLast = NoPut

VGCIdle ==
    /\ vgcClass = "VGC"
    /\ diff_press_ok = 1
    /\ ext_ilk_ok = 1
    /\ open_command = <<>>
    /\ vgcLast = NoPut

\* the environment changes the differential-pressure interlock
DiffPressChange ==
    /\ diff_press_ok' \in BinaryValues \ {diff_press_ok}
    /\ UNCHANGED <<vgcClass, ext_ilk_ok, open_command, vgcLast>>
    /\ UNCHANGED <<gateVars, stopperVars, lightVars>>

\* the environment changes the external interlock
ExtIlkChange ==
    /\ ext_ilk_ok' \in BinaryValues \ {ext_ilk_ok}
    /\ UNCHANGED <<vgcClass, diff_press_ok, open_command, vgcLast>>
    /\ UNCHANGED <<gateVars, stopperVars, lightVars>>

\* open_command.put(value): the classes put nothing in front of the write
VGC_open_command_put(value) ==
    /\ Len(open_command) < MaxPuts
    /\ open_command' = Append(open_command, value)
    /\ vgcLast' = [value |-> value, diff_press_ok |-> diff_press_ok,
                   ext_ilk_ok |-> ext_ilk_ok]
    /\ UNCHANGED <<vgcClass, diff_press_ok, ext_ilk_ok>>
    /\ UNCHANGED <<gateVars, stopperVars, lightVars>>

(***************************************************************************)
(* valve.py: calc_lightpath_state of VRC, VFS and VRCNO.  The three        *)
(* methods store bool(closed limit) in self._inserted and bool(open limit) *)
(* in self._removed, then read both attributes back to build the result.   *)
(* Each step below is one assignment to, or one read of, an attribute.     *)
(* A transmission of 0.0 is written 0 and one of 1.0 is written 1.         *)
(***************************************************************************)
Callers == 1..NumCallers

\* the classes with a calc_lightpath_state, own or inherited
LightpathClasses == {"VRC", "VGC", "VGC_2S", "VFS", "VRCNO", "VRCDA"}

\* the class whose calc_lightpath_state a class resolves to; VRCDA(VRC,
\* VRCNO) finds VRC first
Resolve(cls) ==
    CASE cls \in {"VRC", "VGC", "VGC_2S", "VRCDA"} -> "VRC"
      [] cls = "VFS" -> "VFS"
      [] cls = "VRCNO" -> "VRCNO"

\* the lists of output branches a device is constructed with
BranchLists == {<<"L0">>, <<"L0", "L1">>, <<"L1", "L0">>}

\* LightpathState(inserted=..., removed=..., output=...)
LightpathState(inserted, removed, output) ==
    [inserted |-> inserted, removed |-> removed, output |-> output]

\* _inserted taken from the open limit
inserted_from_open(open_limit, closed_limit) == bool(open_limit)

\* the transmission the wrong way round
trans_inverted(inserted) == IF inserted THEN 1 ELSE 0

\* _inserted flipped against the value the attribute holds
inserted_toggled(open_limit, closed_limit) ==
    bool(closed_limit) # attr_inserted

\* the transmission given to the last output branch
output_last_branch(branches, trans) == (branches[Len(branches)] :> trans)

\* VRC.calc_lightpath_state
VRC_inserted(open_limit, closed_limit) == bool(closed_limit)
VRC_removed(open_limit, closed_limit) == bool(open_limit)
VRC_trans(inserted) == IF inserted THEN 0 ELSE 1
VRC_output(branches, trans) == (branches[1] :> trans)

\* VFS.calc_lightpath_state
VFS_inserted(position_open, position_close) == bool(position_close)
VFS_removed(position_open, position_close) == bool(position_open)
VFS_trans(inserted) == IF inserted THEN 0 ELSE 1
VFS_output(branches, trans) == (branches[1] :> trans)

\* VRCNO.calc_lightpath_state
VRCNO_inserted(open_limit, closed_limit) == bool(closed_limit)
VRCNO_removed(open_limit, closed_limit) == bool(open_limit)
VRCNO_trans(inserted) == IF inserted THEN 0 ELSE 1
VRCNO_output(branches, trans) == (branches[1] :> trans)

\* each method run on its own, from its arguments to its LightpathState
VRC_calc_lightpath_state(branches, open_limit, closed_limit) ==
    LET inserted == VRC_inserted(open_limit, closed_limit)
        removed == VRC_removed(open_limit, closed_limit)
        trans == VRC_trans(inserted)
    IN LightpathState(inserted, removed, VRC_output(branches, trans))

VFS_calc_lightpath_state(branches, position_open, position_close) ==
    LET inserted == VFS_inserted(position_open, position_close)
        removed == VFS_removed(position_open, position_close)
        trans == VFS_trans(inserted)
    IN LightpathState(inserted, removed, VFS_output(branches, trans))

VRCNO_calc_lightpath_state(branches, open_limit, closed_limit) ==
    LET inserted == VRCNO_inserted(open_limit, closed_limit)
        removed == VRCNO_removed(open_limit, closed_limit)
        trans == VRCNO_trans(inserted)
    IN LightpathState(inserted, removed, VRCNO_output(branches, trans))

\* the bases of VRCDA in the order of its class statement
VRCDA_bases == <<"VRC", "VRCNO">>

\* the statements of the method a class resolves to
calc_inserted(cls, a) ==
    CASE Resolve(cls) = "VRC" -> VRC_inserted(a.open, a.closed)
      [] Resolve(cls) = "VFS" -> VFS_inserted(a.open, a.closed)
      [] Resolve(cls) = "VRCNO" -> VRCNO_inserted(a.open, a.closed)

calc_removed(cls, a) ==
    CASE Resolve(cls) = "VRC" -> VRC_removed(a.open, a.closed)
      [] Resolve(cls) = "VFS" -> VFS_removed(a.open, a.closed)
      [] Resolve(cls) = "VRCNO" -> VRCNO_removed(a.open, a.closed)

calc_trans(cls, inserted) ==
    CASE Resolve(cls) = "VRC" -> VRC_trans(inserted)
      [] Resolve(cls) = "VFS" -> VFS_trans(inserted)
      [] Resolve(cls) = "VRCNO" -> VRCNO_trans(inserted)

calc_output(cls, branches, trans) ==
    CASE Resolve(cls) = "VRC" -> VRC_output(branches, trans)
      [] Resolve(cls) = "VFS" -> VFS_output(branches, trans)
      [] Resolve(cls) = "VRCNO" -> VRCNO_output(branches, trans)

NoArgs == [open |-> 0, closed |-> 0]
NoFrame == [trans |-> 0, inserted |-> FALSE]
NoResult == [inserted |-> FALSE, removed |-> FALSE, output |-> <<>>]
NoDone == [valid |-> FALSE, args |-> NoArgs, result |-> NoResult,
           attr_inserted |-> FALSE, attr_removed |-> FALSE]

LightInit ==
    /\ devClass \in LightpathClasses
    /\ output_branches \in BranchLists
    /\ attr_inserted = FALSE
    /\ attr_removed = FALSE
    /\ pc = [p \in Callers |-> "idle"]
    /\ args = [p \in Callers |-> NoArgs]
    /\ frame = [p \in Callers |-> NoFrame]
    /\ result = [p \in Callers |-> NoResult]
    /\ lastDone = NoDone

LightIdle ==
    /\ devClass = "VRC"
    /\ output_branches = <<"L0">>
    /\ attr_inserted = FALSE
    /\ attr_removed = FALSE
    /\ pc = [p \in Callers |-> "idle"]
    /\ args = [p \in Callers |-> NoArgs]
    /\ frame = [p \in Callers |-> NoFrame]
    /\ result = [p \in Callers |-> NoResult]
    /\ lastDone = NoDone

\* calc_lightpath_state(open_limit, closed_limit) is entered
Call(p, open_limit, closed_limit) ==
    /\ pc[p] \in {"idle", "done"}
    /\ pc' = [pc EXCEPT ![p] = "set_inserted"]
    /\ args' = [args EXCEPT ![p] = [open |-> open_limit,
                                    closed |-> closed_limit]]
    /\ frame' = [frame EXCEPT ![p] = NoFrame]
    /\ result' = [result EXCEPT ![p] = NoResult]
    /\ UNCHANGED <<devClass, output_branches, attr_inserted, attr_removed,
                   lastDone>>
    /\ UNCHANGED <<gateVars, stopperVars, vgcVars>>

\* the same, entered when no other invocation is in progress
CallInTurn(p, open_limit, closed_limit) ==
    /\ \A q \in Callers : pc[q] \in {"idle", "done"}
    /\ Call(p, open_limit, closed_limit)

\* self._inserted = bool(closed_limit)
SetInserted(p) ==
    /\ pc[p] = "set_inserted"
    /\ attr_inserted' = calc_inserted(devClass, args[p])
    /\ pc' = [pc EXCEPT ![p] = "set_removed"]
    /\ UNCHANGED <<devClass, output_branches, attr_removed, args, frame,
                   result, lastDone>>
    /\ UNCHANGED <<gateVars, stopperVars, vgcVars>>

\* self._removed = bool(open_limit)
SetRemoved(p) ==
    /\ pc[p] = "set_removed"
    /\ attr_removed' = calc_removed(devClass, args[p])
    /\ pc' = [pc EXCEPT ![p] = "calc_trans"]
    /\ UNCHANGED <<devClass, output_branches, attr_inserted, args, frame,
                   result, lastDone>>
    /\ UNCHANGED <<gateVars, stopperVars, vgcVars>>

\* trans = 0.0 if self._inserted else 1.0
CalcTrans(p) ==
    /\ pc[p] = "calc_trans"
    /\ frame' = [frame EXCEPT ![p].trans = calc_trans(devClass, attr_inserted)]
    /\ pc' = [pc EXCEPT ![p] = "read_inserted"]
    /\ UNCHANGED <<devClass, output_branches, attr_inserted, attr_removed,
                   args, result, lastDone>>
    /\ UNCHANGED <<gateVars, stopperVars, vgcVars>>

\* inserted=self._inserted
ReadInserted(p) ==
    /\ pc[p] = "read_inserted"
    /\ frame' = [frame EXCEPT ![p].inserted = attr_inserted]
    /\ pc' = [pc EXCEPT ![p] = "read_removed"]
    /\ UNCHANGED <<devClass, output_branches, attr_inserted, attr_removed,
                   args, result, lastDone>>
    /\ UNCHANGED <<gateVars, stopperVars, vgcVars>>

\* removed=self._removed, output={self.output_branches[0]: trans}; return
ReadRemovedReturn(p) ==
    /\ pc[p] = "read_removed"
    /\ result' = [result EXCEPT ![p] =
          LightpathState(frame[p].inserted, attr_removed,
                         calc_output(devClass, output_branches,
                                     frame[p].trans))]
    /\ lastDone' = [valid |-> TRUE, args |-> args[p], result |-> result'[p],
                     attr_inserted |-> attr_inserted,
                     attr_removed |-> attr_removed]
    /\ pc' = [pc EXCEPT ![p] = "done"]
    /\ UNCHANGED <<devClass, output_branches, attr_inserted, attr_removed,
                   args, frame>>
    /\ UNCHANGED <<gateVars, stopperVars, vgcVars>>

(***************************************************************************)
(* Specifications, one per device family.                                  *)
(***************************************************************************)
GateIdle ==
    /\ interlock = 1
    /\ ilkConnected = TRUE
    /\ ilkReads = <<>>
    /\ command = <<>>
    /\ gvCalls = 0
    /\ gvLast = NoCall

\* the gate valve
Init == GateInit /\ StopperInit /\ VGCIdle /\ LightIdle

Next ==
    \/ InterlockChange
    \/ InterlockConnection
    \/ \E value \in states_enum : CheckValue(value)
    \/ GateValve_open
    \/ GateValve_close

Spec == Init /\ [][Next]_vars

\* the stopper and the state tables
InitStopper == GateIdle /\ StopperInit /\ VGCIdle /\ LightIdle

NextStopper ==
    \/ Stopper_open
    \/ Stopper_close
    \/ \E raw \in 0..MaxSummary : PPS_read(raw)
    \/ \E signal \in DOMAIN Limits, raw \in 0..MaxLimit :
          Limits_read(signal, raw)

SpecStopper == InitStopper /\ [][NextStopper]_vars

\* the compound-interlock valves
InitVGC == GateIdle /\ StopperInit /\ VGCInit /\ LightIdle

NextVGC ==
    \/ DiffPressChange
    \/ ExtIlkChange
    \/ \E value \in {Commands.close_valve, Commands.open_valve} :
          VGC_open_command_put(value)

SpecVGC == InitVGC /\ [][NextVGC]_vars

\* calc_lightpath_state, one invocation after the other
InitLight == GateIdle /\ StopperInit /\ VGCIdle /\ LightInit

NextLight ==
    \/ \E p \in Callers, o \in BinaryValues, c \in BinaryValues :
          CallInTurn(p, o, c)
    \/ \E p \in Callers : SetInserted(p)
    \/ \E p \in Callers : SetRemoved(p)
    \/ \E p \in Callers : CalcTrans(p)
    \/ \E p \in Callers : ReadInserted(p)
    \/ \E p \in Callers : ReadRemovedReturn(p)

SpecLight == InitLight /\ [][NextLight]_vars

\* the derivations: calc_lightpath_state one invocation after the other,
\* and reads of GateValve.interlocked, on a device with one output branch
\* of each class that defines the method
InitDerive ==
    /\ GateInit /\ StopperInit /\ VGCIdle /\ LightInit
    /\ devClass \in {"VRC", "VFS", "VRCNO"}
    /\ output_branches = <<"L0">>

NextDerive ==
    \/ \E p \in Callers, o \in BinaryValues, c \in BinaryValues :
          CallInTurn(p, o, c)
    \/ \E p \in Callers : SetInserted(p)
    \/ \E p \in Callers : SetRemoved(p)
    \/ \E p \in Callers : CalcTrans(p)
    \/ \E p \in Callers : ReadInserted(p)
    \/ \E p \in Callers : ReadRemovedReturn(p)
    \/ InterlockChange
    \/ ReadInterlocked

SpecDerive == InitDerive /\ [][NextDerive]_vars

\* calc_lightpath_state, invocations racing
NextReentrant ==
    \/ \E p \in Callers, o \in BinaryValues, c \in BinaryValues :
          Call(p, o, c)
    \/ \E p \in Callers : SetInserted(p)
    \/ \E p \in Callers : SetRemoved(p)
    \/ \E p \in Callers : CalcTrans(p)
    \/ \E p \in Callers : ReadInserted(p)
    \/ \E p \in Callers : ReadRemovedReturn(p)

SpecReentrant == InitLight /\ [][NextReentrant]_vars

(***************************************************************************)
(* Properties.                                                             *)
(***************************************************************************)
\* the step is a call on the gate valve
GateCallStep == gvCalls' = gvCalls + 1

\* C1: check_value rejects an open request (OUT) with InterlockError, a
\* PermissionError, whenever the interlock signal reads not ok; it never
\* rejects a close request (IN), whatever the interlock reads; and it
\* returns an open request unchanged when the interlock reads ok.
C1_CheckValueInterlock ==
    gvLast.op # "none" =>
        /\ ExceptionBase[InterlockError] = "PermissionError"
        /\ (gvLast.value = State_OUT /\ gvLast.conn /\ ~ bool(gvLast.ilk))
              => gvLast.exc = InterlockError
        /\ gvLast.value = State_IN
              => (gvLast.exc = NoException /\ gvLast.ret = State_IN)
        /\ (gvLast.value = State_OUT /\ gvLast.conn /\ bool(gvLast.ilk))
              => (gvLast.exc = NoException /\ gvLast.ret = State_OUT)

\* C1 witness: check_value(OUT) was called with the interlock reading not ok
\* and raised InterlockError.
C1_Witness ==
    /\ gvLast.op = "check_value"
    /\ gvLast.value = State_OUT
    /\ gvLast.ilk = 0
    /\ gvLast.exc = InterlockError

C5_InterlockReadAtEachCall ==
    [][(/\ GateCallStep
        /\ gvLast'.value = State_OUT
        /\ ilkConnected)
          => /\ (gvLast'.exc = InterlockError) <=> ~ bool(interlock)
             /\ (gvLast'.exc = NoException) <=> bool(interlock)
             /\ ilkReads' = Append(ilkReads, interlock)]_vars

\* C5 witness: a first call read the interlock not ok, the interlock
\* changed, and the latest call read it ok and was permitted.
C5_Witness ==
    /\ Len(ilkReads) >= 2
    /\ ilkReads[1] = 0
    /\ ilkReads[Len(ilkReads)] = 1
    /\ gvLast.value = State_OUT
    /\ gvLast.exc = NoException

\* the number of times v occurs in the log s
Count(s, v) == Cardinality({i \in 1..Len(s) : s[i] = v})

\* C6: the command codes are 0 = close and 1 = open for valves and for
\* stoppers; every Stopper.open() makes exactly one write, of 1, and every
\* Stopper.close() exactly one write, of 0.
C6_OneWritePerCommand ==
    /\ Commands.close_valve = 0 /\ Commands.open_valve = 1
    /\ StopperCommands.close_stopper = 0 /\ StopperCommands.open_stopper = 1
    /\ Len(stopperCommand) = nOpen + nClose
    /\ Count(stopperCommand, 1) = nOpen
    /\ Count(stopperCommand, 0) = nClose
    /\ stLast = "open" => stopperCommand[Len(stopperCommand)] = 1
    /\ stLast = "close" => stopperCommand[Len(stopperCommand)] = 0

\* C6 witness: the stopper was closed and then opened.
C6_Witness ==
    /\ nClose = 1
    /\ nOpen = 1
    /\ stLast = "open"
    /\ stopperCommand = <<0, 1>>

\* C7: the PPS summary table is total over {0,1,2,3,4}: 0 is 'out', each of
\* 1, 2 and 3 is 'unknown', 4 is 'in'; every value has one label.
C7_PPSTotal ==
    /\ DOMAIN PPS_summary = 0..4
    /\ (ppsLast.signal = "summary" /\ ppsLast.raw \in 0..4) =>
          /\ ppsLast.exc = NoException
          /\ ppsLast.state = CASE ppsLast.raw = 0 -> "out"
                               [] ppsLast.raw \in 1..3 -> "unknown"
                               [] ppsLast.raw = 4 -> "in"

\* C7 witness: the summary read 3 and was given the state 'unknown'.
C7_Witness ==
    /\ ppsLast.signal = "summary"
    /\ ppsLast.raw = 3
    /\ ppsLast.state = "unknown"

\* C8: a raw reading outside the declared domain of a table (a PPS summary
\* outside {0,1,2,3,4}, a limit outside {0,1}) is an UnknownStateError and
\* is given no state.
C8_OutOfDomainIsError ==
    /\ (ppsLast.signal = "summary" /\ ppsLast.raw \notin {0, 1, 2, 3, 4})
          => (ppsLast.exc = UnknownStateError /\ ppsLast.state = "none")
    /\ (limLast.signal # "none" /\ limLast.raw \notin {0, 1})
          => (limLast.exc = UnknownStateError /\ limLast.state = "none")

\* C8 witness: the summary read 5 and a limit read 2, both errors.
C8_Witness ==
    /\ ppsLast.signal = "summary"
    /\ ppsLast.raw = 5
    /\ ppsLast.exc = UnknownStateError
    /\ limLast.signal = "closed_limit"
    /\ limLast.raw = 2
    /\ limLast.exc = UnknownStateError

\* C9: on VGC and VGC_2S an open request is permitted, that is, reaches
\* open_command, if and only if diff_press_ok and ext_ilk_ok both read true
\* at the request.
C9_CompoundInterlock ==
    vgcLast.value = Commands.open_valve =>
        ((/\ Len(open_command) > 0
          /\ open_command[Len(open_command)] = Commands.open_valve)
         <=> (bool(vgcLast.diff_press_ok) /\ bool(vgcLast.ext_ilk_ok)))

\* the LightpathState the arguments a alone determine
Expected(a, branches) ==
    [inserted |-> a.closed # 0,
     removed |-> a.open # 0,
     output |-> (branches[1] :> (IF a.closed # 0 THEN 0 ELSE 1))]

\* C3: for limit readings in {0,1}, calc_lightpath_state of VRC, VFS and
\* VRCNO returns inserted = (closed_limit != 0), removed = (open_limit != 0)
\* and the transmission 0.0 if inserted else 1.0 on exactly one branch, the
\* first declared; (1,0) gives (False, True, 1.0), (0,1) gives (True,
\* False, 0.0) and (0,0) gives (False, False, 1.0).
C3_LightpathRule ==
    \A p \in Callers : pc[p] = "done" =>
        LET a == args[p]
            r == result[p]
            b == output_branches[1]
        IN /\ r.inserted = (a.closed # 0)
           /\ r.removed = (a.open # 0)
           /\ DOMAIN r.output = {b}
           /\ r.output[b] = (IF r.inserted THEN 0 ELSE 1)
           /\ (a.open = 1 /\ a.closed = 0)
                 => (~ r.inserted /\ r.removed /\ r.output[b] = 1)
           /\ (a.open = 0 /\ a.closed = 1)
                 => (r.inserted /\ ~ r.removed /\ r.output[b] = 0)
           /\ (a.open = 0 /\ a.closed = 0)
                 => (~ r.inserted /\ ~ r.removed /\ r.output[b] = 1)

\* C3 witness: a device with two output branches returned the state of a
\* closed valve.
C3_Witness ==
    \E p \in Callers :
        /\ pc[p] = "done"
        /\ args[p] = [open |-> 0, closed |-> 1]
        /\ Len(output_branches) = 2
        /\ result[p].inserted

\* C4: for limit readings in {0,1}, (1,1) included, calc_lightpath_state
\* never returns a state with inserted and removed both true.
C4_NeverInsertedAndRemoved ==
    \A p \in Callers : pc[p] = "done" =>
        ~ (result[p].inserted /\ result[p].removed)

\* C10: when invocations on one device interleave at their attribute
\* assignments and reads, each still returns the inserted, removed and
\* transmission its own arguments determine.
C10_Reentrant ==
    \A p \in Callers : pc[p] = "done" =>
        result[p] = Expected(args[p], output_branches)

\* the step is the return of an invocation of calc_lightpath_state
ReturnStep == \E p \in Callers : pc[p] = "read_removed" /\ pc'[p] = "done"

\* the step is a read of GateValve.interlocked that succeeds
InterlockedStep ==
    /\ gvCalls' = gvCalls + 1
    /\ gvLast'.op = "interlocked"
    /\ gvLast'.exc = NoException

\* the step writes to none of the command signals
NoSignalWritten ==
    /\ command' = command
    /\ stopperCommand' = stopperCommand
    /\ open_command' = open_command

\* C11: an invocation of calc_lightpath_state that follows one with the
\* same limit readings returns the same LightpathState and leaves the same
\* _inserted/_removed; a read of GateValve.interlocked that follows one with
\* the same interlock reading gives the same answer; neither writes to a
\* signal.
C11_Idempotent ==
    [][/\ ReturnStep =>
            /\ NoSignalWritten
            /\ (lastDone.valid /\ lastDone.args = lastDone'.args) =>
                  /\ lastDone'.result = lastDone.result
                  /\ lastDone'.attr_inserted = lastDone.attr_inserted
                  /\ lastDone'.attr_removed = lastDone.attr_removed
       /\ InterlockedStep =>
            /\ NoSignalWritten
            /\ (/\ gvLast.op = "interlocked"
                /\ gvLast.exc = NoException
                /\ gvLast.ilk = gvLast'.ilk) => gvLast'.ret = gvLast.ret]_vars

\* C11 witness: two invocations with the closed limit set have returned one
\* after the other, and interlocked has been read twice as true.
C11_Witness ==
    /\ \A p \in Callers : pc[p] = "done" /\ args[p] = [open |-> 0, closed |-> 1]
    /\ lastDone.valid
    /\ lastDone.result.inserted
    /\ gvLast.op = "interlocked"
    /\ gvLast.ret = TRUE
    /\ ilkReads = <<0, 0>>

\* C12: the Limits tables are total over {0,1}: open_limit gives 1 'out'
\* and 0 'defer', closed_limit gives 1 'in' and 0 'defer'; no reading of a
\* limit signal is given 'unknown'.
C12_LimitsTotal ==
    /\ DOMAIN Limits = {"open_limit", "closed_limit"}
    /\ \A signal \in DOMAIN Limits : DOMAIN Limits[signal] = {0, 1}
    /\ (limLast.signal # "none" /\ limLast.raw \in {0, 1}) =>
          /\ limLast.exc = NoException
          /\ limLast.state # "unknown"
          /\ limLast.state =
                CASE limLast.raw = 0 -> "defer"
                  [] limLast.raw = 1 /\ limLast.signal = "open_limit" -> "out"
                  [] limLast.raw = 1 /\ limLast.signal = "closed_limit" -> "in"

\* C12 witness: open_limit read 1 and was given 'out'.
C12_Witness ==
    /\ limLast.signal = "open_limit"
    /\ limLast.raw = 1
    /\ limLast.state = "out"

\* C13: check_value reads the interlock signal once for an OUT request and
\* not at all for an IN request, so an IN request returns IN even when the
\* interlock signal is unavailable; check_value writes to no signal.
C13_ReadsOnlyForOut ==
    [][(GateCallStep /\ gvLast'.op = "check_value") =>
          /\ NoSignalWritten
          /\ gvLast'.value = State_IN =>
                /\ ilkReads' = ilkReads
                /\ gvLast'.exc = NoException
                /\ gvLast'.ret = State_IN
          /\ gvLast'.value = State_OUT =>
                Len(ilkReads') = Len(ilkReads) + 1]_vars

\* C13 witness: check_value(IN) returned with the interlock signal
\* unavailable and never read.
C13_Witness ==
    /\ gvLast.op = "check_value"
    /\ gvLast.value = State_IN
    /\ ~ gvLast.conn
    /\ gvLast.exc = NoException
    /\ ilkReads = <<>>

\* C14: for readings in {0,1} x {0,1} the calc_lightpath_state of VRC, of
\* VRCNO and of VFS return the same inserted, removed and transmission, so
\* VRCDA returns the same from either of its bases; the transmission is
\* decided by the closed-limit reading alone.
C14_ImplementationsAgree ==
    \A p \in Callers : pc[p] = "done" =>
        LET a == args[p]
            b == output_branches
        IN /\ result[p] = VRC_calc_lightpath_state(b, a.open, a.closed)
           /\ result[p] = VFS_calc_lightpath_state(b, a.open, a.closed)
           /\ result[p] = VRCNO_calc_lightpath_state(b, a.open, a.closed)
           /\ \A i \in 1..Len(VRCDA_bases) :
                 LET r == CASE VRCDA_bases[i] = "VRC" ->
                                 VRC_calc_lightpath_state(b, a.open, a.closed)
                            [] VRCDA_bases[i] = "VRCNO" ->
                                 VRCNO_calc_lightpath_state(b, a.open,
                                                            a.closed)
                 IN devClass = "VRCDA" => result[p] = r
           /\ \A o \in BinaryValues :
                 /\ VRC_calc_lightpath_state(b, o, a.closed).output
                       = result[p].output
                 /\ VFS_calc_lightpath_state(b, o, a.closed).output
                       = result[p].output
                 /\ VRCNO_calc_lightpath_state(b, o, a.closed).output
                       = result[p].output

\* C14 witness: a VRCDA returned the state of a closed valve with the open
\* limit set as well.
C14_Witness ==
    \E p \in Callers :
        /\ devClass = "VRCDA"
        /\ pc[p] = "done"
        /\ args[p] = [open |-> 1, closed |-> 1]
        /\ result[p].output[output_branches[1]] = 0

====
